---- MODULE Spec2Model ----
(***************************************************************************)
(* Figure composition helpers of xarray_plotly (figures.py):               *)
(* overlay_figures and add_secondary_y, with their private helpers.        *)
(*                                                                         *)
(* A figure is a record [data, layout, frames].  Traces are Python         *)
(* objects: fig.data is a sequence of references into `heap`, so that      *)
(* copy.deepcopy (a fresh object) and aliasing (the same reference) are    *)
(* different things.  A frame is [name, data, traces]; the entries of a    *)
(* frame's data are held by value.  Python's None is the string "None";    *)
(* an unset frame.traces is the empty sequence.                            *)
(***************************************************************************)
EXTENDS Integers, Sequences, FiniteSets, TLC

VARIABLES heap, base, overlays, pc, call, result

vars == <<heap, base, overlays, pc, call, result>>

\* ------------------------------------------------------------- bounds
\* Largest number of traces of an input figure.
MaxTraces == 2
\* Largest number of animation frames of an input figure.
MaxFrames == 2
\* Largest number of data entries of one input frame.
MaxFrameData == 2
\* Largest number of overlays passed to overlay_figures.
MaxOverlays == 2

NoneV == "None"

\* The trace name a caller assigns to a trace of the returned figure
\* (combined.data[0].name = "modified").
Modified == 0

\* (xaxis, yaxis) references an input trace may carry.
AxisRefs == {<<NoneV, NoneV>>, <<"x", "y">>, <<"x2", "y">>, <<"x", "y2">>}
\* The same for the figures of a call with several overlays.
PlainAxisRefs == {<<NoneV, NoneV>>, <<"x2", "y">>}
\* The references of a trace on the default subplot.
DefaultAxisRefs == {<<NoneV, NoneV>>, <<"x", "y">>}

FrameNames == {"f1", "f2"}

\* The y-axis title text (layout.yaxis.title.text) of the input figure
\* numbered f, when its y-axis has a title.
YTitle(f) == IF f = 1 THEN "Temperature" ELSE "Precipitation"

\* secondary_y_title arguments.
TitleArgs == {NoneV, "", "Rain"}

\* ------------------------------------------------------------ helpers
Range(s) == {s[i] : i \in DOMAIN s}

SeqsUpTo(S, n) == UNION {[1..k -> S] : k \in 0..n}

SetMin(S) == CHOOSE m \in S : \A k \in S : m <= k

RECURSIVE Flatten(_)
Flatten(ss) == IF ss = <<>> THEN <<>> ELSE Head(ss) \o Flatten(Tail(ss))

RECURSIVE SumSeq(_)
SumSeq(s) == IF s = <<>> THEN 0 ELSE Head(s) + SumSeq(Tail(s))

\* Python's `v or d` for a string-or-None v.
OrDefault(v, d) == IF v = NoneV \/ v = "" THEN d ELSE v

\* The trace objects a figure's data refers to, by value, in order.
TraceValues(h, fig) == [i \in 1..Len(fig.data) |-> h[fig.data[i]]]

\* A figure by value: what a caller can observe of it.
FigureValue(h, fig) ==
    [data |-> TraceValues(h, fig), layout |-> fig.layout, frames |-> fig.frames]

EmptyLayout == [title |-> NoneV, ytitle |-> NoneV, yaxis2 |-> <<>>]

EmptyFigure == [data |-> <<>>, layout |-> EmptyLayout, frames |-> <<>>]

\* ---------------------------------------------------------- figures.py
NoError ==
    [check |-> "none", extra_axes |-> {}, missing |-> {}, extra |-> {},
     says_missing |-> FALSE, says_extra |-> FALSE]

_get_subplot_axes(h, fig) ==
    {<<OrDefault(h[o].xaxis, "x"), OrDefault(h[o].yaxis, "y")>> : o \in Range(fig.data)}

\* Mutant: the check compares x axes and y axes one by one, not as pairs.
structure_check_by_axis(h, b, overlay) ==
    LET base_axes == _get_subplot_axes(h, b)
        overlay_axes == _get_subplot_axes(h, overlay)
        extra_axes == {p \in overlay_axes :
                          \/ p[1] \notin {q[1] : q \in base_axes}
                          \/ p[2] \notin {q[2] : q \in base_axes}}
    IN  IF extra_axes # {}
        THEN [NoError EXCEPT !.check = "structure", !.extra_axes = extra_axes]
        ELSE NoError

\* Mutant: the check asks for the same pairs on both sides.
structure_check_symmetric(h, b, overlay) ==
    LET base_axes == _get_subplot_axes(h, b)
        overlay_axes == _get_subplot_axes(h, overlay)
        extra_axes == (overlay_axes \ base_axes) \cup (base_axes \ overlay_axes)
    IN  IF extra_axes # {}
        THEN [NoError EXCEPT !.check = "structure", !.extra_axes = extra_axes]
        ELSE NoError

_validate_compatible_structure(h, b, overlay) ==
    LET base_axes == _get_subplot_axes(h, b)
        overlay_axes == _get_subplot_axes(h, overlay)
        extra_axes == overlay_axes \ base_axes
    IN  IF extra_axes # {}
        THEN [NoError EXCEPT !.check = "structure", !.extra_axes = extra_axes]
        ELSE NoError

\* Mutant: an animated overlay on a static base is let through.
animation_check_names_only(b, overlay) ==
    LET base_frame_names == {b.frames[i].name : i \in DOMAIN b.frames}
        overlay_frame_names == {overlay.frames[i].name : i \in DOMAIN overlay.frames}
        missing_in_overlay == base_frame_names \ overlay_frame_names
        extra_in_overlay == overlay_frame_names \ base_frame_names
    IN  IF b.frames # <<>> /\ overlay.frames # <<>>
           /\ base_frame_names # overlay_frame_names
        THEN [NoError EXCEPT !.check = "frame_names",
                             !.missing = missing_in_overlay,
                             !.extra = extra_in_overlay,
                             !.says_missing = (missing_in_overlay # {}),
                             !.says_extra = (extra_in_overlay # {})]
        ELSE NoError

\* Mutant: only frames missing in the overlay count as a mismatch.
animation_check_missing_only(b, overlay) ==
    LET base_frame_names == {b.frames[i].name : i \in DOMAIN b.frames}
        overlay_frame_names == {overlay.frames[i].name : i \in DOMAIN overlay.frames}
        missing_in_overlay == base_frame_names \ overlay_frame_names
    IN  IF overlay.frames # <<>> /\ b.frames = <<>>
        THEN [NoError EXCEPT !.check = "animated_on_static"]
        ELSE IF b.frames # <<>> /\ overlay.frames # <<>> /\ missing_in_overlay # {}
        THEN [NoError EXCEPT !.check = "frame_names",
                             !.missing = missing_in_overlay,
                             !.says_missing = TRUE]
        ELSE NoError

\* Mutant: the frame names are compared as lists, order included.
animation_check_ordered(b, overlay) ==
    LET base_frame_names == [i \in DOMAIN b.frames |-> b.frames[i].name]
        overlay_frame_names == [i \in DOMAIN overlay.frames |-> overlay.frames[i].name]
        missing_in_overlay == Range(base_frame_names) \ Range(overlay_frame_names)
        extra_in_overlay == Range(overlay_frame_names) \ Range(base_frame_names)
    IN  IF overlay.frames # <<>> /\ b.frames = <<>>
        THEN [NoError EXCEPT !.check = "animated_on_static"]
        ELSE IF b.frames # <<>> /\ overlay.frames # <<>>
                  /\ base_frame_names # overlay_frame_names
        THEN [NoError EXCEPT !.check = "frame_names",
                             !.missing = missing_in_overlay,
                             !.extra = extra_in_overlay,
                             !.says_missing = (missing_in_overlay # {}),
                             !.says_extra = (extra_in_overlay # {})]
        ELSE NoError

_validate_animation_compatibility(b, overlay) ==
    LET base_has_frames == b.frames # <<>>
        overlay_has_frames == overlay.frames # <<>>
        base_frame_names == {b.frames[i].name : i \in DOMAIN b.frames}
        overlay_frame_names == {overlay.frames[i].name : i \in DOMAIN overlay.frames}
        missing_in_overlay == base_frame_names \ overlay_frame_names
        extra_in_overlay == overlay_frame_names \ base_frame_names
    IN  IF overlay_has_frames /\ ~base_has_frames
        THEN [NoError EXCEPT !.check = "animated_on_static"]
        ELSE IF base_has_frames /\ overlay_has_frames
                  /\ base_frame_names # overlay_frame_names
        THEN [NoError EXCEPT !.check = "frame_names",
                             !.missing = missing_in_overlay,
                             !.extra = extra_in_overlay,
                             !.says_missing = (missing_in_overlay # {}),
                             !.says_extra = (extra_in_overlay # {})]
        ELSE NoError

\* next((f for f in fig.frames if f.name == frame_name), None): the data of
\* the first frame of that name, <<>> when there is none.
\* Mutant: the last frame of that name is taken.
matching_frame_data_last(fig, frame_name) ==
    LET hits == {i \in DOMAIN fig.frames : fig.frames[i].name = frame_name}
    IN  IF hits = {} THEN <<>>
        ELSE fig.frames[CHOOSE m \in hits : \A k \in hits : k <= m].data

matching_frame_data(fig, frame_name) ==
    LET hits == {i \in DOMAIN fig.frames : fig.frames[i].name = frame_name}
    IN  IF hits = {} THEN <<>> ELSE fig.frames[SetMin(hits)].data

\* Mutant: a static overlay adds nothing to the frames.
overlay_frame_part_animated_only(h, overlay, frame_name) ==
    IF overlay.frames # <<>>
    THEN matching_frame_data(overlay, frame_name)
    ELSE <<>>

\* What one overlay adds to the merged frame of that name.
overlay_frame_part(h, overlay, frame_name) ==
    IF overlay.frames # <<>>
    THEN matching_frame_data(overlay, frame_name)
    ELSE TraceValues(h, overlay)

\* Mutant: only the first overlay is merged into the frames.
_merge_frames_first_overlay(h, b, ovs, base_trace_count, overlay_trace_counts) ==
    LET total == base_trace_count + SumSeq(overlay_trace_counts)
    IN  [i \in 1..Len(b.frames) |->
            [name |-> b.frames[i].name,
             data |-> b.frames[i].data
                      \o overlay_frame_part(h, ovs[1], b.frames[i].name),
             traces |-> [t \in 1..total |-> t - 1]]]

_merge_frames(h, b, ovs, base_trace_count, overlay_trace_counts) ==
    LET zipped == IF Len(ovs) <= Len(overlay_trace_counts)
                  THEN Len(ovs) ELSE Len(overlay_trace_counts)
        total == base_trace_count + SumSeq(overlay_trace_counts)
    IN  [i \in 1..Len(b.frames) |->
            [name |-> b.frames[i].name,
             data |-> b.frames[i].data \o
                      Flatten([k \in 1..zipped |->
                                  overlay_frame_part(h, ovs[k], b.frames[i].name)]),
             traces |-> [t \in 1..total |-> t - 1]]]

\* Mutant: the structure of every overlay is checked first, then the frames
\* of every overlay.
validate_structure_of_all_first(h, b, ovs) ==
    LET s(i) == _validate_compatible_structure(h, b, ovs[i])
        a(i) == _validate_animation_compatibility(b, ovs[i])
        bad_s == {i \in DOMAIN ovs : s(i) # NoError}
        bad_a == {i \in DOMAIN ovs : a(i) # NoError}
    IN  IF bad_s # {} THEN s(SetMin(bad_s))
        ELSE IF bad_a # {} THEN a(SetMin(bad_a))
        ELSE NoError

\* The error of the first overlay that fails a check, the structure check
\* first; NoError when every overlay passes.
validate_overlays(h, b, ovs) ==
    LET err(i) == LET s == _validate_compatible_structure(h, b, ovs[i])
                  IN  IF s # NoError THEN s
                      ELSE _validate_animation_compatibility(b, ovs[i])
        bad == {i \in DOMAIN ovs : err(i) # NoError}
    IN  IF bad = {} THEN NoError ELSE err(SetMin(bad))

\* Mutant: the traces are added without being copied.
shared_refs(n, refs) == refs

\* copy.deepcopy of trace objects: the references of the copies, allocated
\* after the n objects the heap already holds.
deepcopy_refs(n, refs) == [i \in 1..Len(refs) |-> n + i]

\* The heap after copy.deepcopy of the trace objects `refs`.
deepcopy_heap(h, refs) == h \o [i \in 1..Len(refs) |-> h[refs[i]]]

Returned(h, fig) == [heap |-> h, kind |-> "return", fig |-> fig, err |-> NoError]

Raised(h, e) == [heap |-> h, kind |-> "raise", fig |-> EmptyFigure, err |-> e]

\* No call has been made yet.
NoResult == [kind |-> "none", fig |-> EmptyFigure, err |-> NoError]

\* Mutant: the base itself is returned.
same_figure(h, b) == Returned(h, b)

\* copy.deepcopy(base): the whole figure copied, every trace a new object.
deepcopy_figure(h, b) ==
    Returned(deepcopy_heap(h, b.data),
             [data |-> deepcopy_refs(Len(h), b.data),
              layout |-> b.layout, frames |-> b.frames])

\* Mutant: the layout of the last overlay wins.
last_overlay_layout(b, ovs) == ovs[Len(ovs)].layout

\* The layout of the combined figure: copy.deepcopy(base.layout).
combined_layout(b, ovs) == b.layout

\* Mutant: the overlays are added last to first.
combined_traces_reversed(b, ovs) ==
    b.data \o Flatten([k \in 1..Len(ovs) |-> ovs[Len(ovs) + 1 - k].data])

\* The traces copied into the combined figure, in the order they are added.
combined_traces(b, ovs) == b.data \o Flatten([k \in 1..Len(ovs) |-> ovs[k].data])

overlay_figures(h, b, ovs) ==
    IF ovs = <<>> THEN deepcopy_figure(h, b)
    ELSE LET e == validate_overlays(h, b, ovs) IN
    IF e # NoError THEN Raised(h, e)
    ELSE LET all_refs == combined_traces(b, ovs)
             overlay_trace_counts == [k \in 1..Len(ovs) |-> Len(ovs[k].data)]
         IN  Returned(deepcopy_heap(h, all_refs),
                      [data |-> deepcopy_refs(Len(h), all_refs),
                       layout |-> combined_layout(b, ovs),
                       frames |-> IF b.frames # <<>>
                                  THEN _merge_frames(h, b, ovs, Len(b.data),
                                                     overlay_trace_counts)
                                  ELSE <<>>])

\* Mutant: the copies keep the y-axis they had.
set_yaxis_kept(h, refs, v) == h

\* The heap with the yaxis of the objects `refs` set to v.
set_yaxis(h, refs, v) ==
    [o \in DOMAIN h |-> IF o \in Range(refs) THEN [h[o] EXCEPT !.yaxis = v] ELSE h[o]]

\* Mutant: the copied frame entries keep their y-axis.
frame_entries_kept(entries) == entries

\* Frame data entries copied and assigned to y2 (every trace modelled here is
\* cartesian, so hasattr(trace_copy, "yaxis") holds).
on_y2(entries) == [k \in 1..Len(entries) |-> [entries[k] EXCEPT !.yaxis = "y2"]]

_merge_secondary_y_frames(h, b, secondary) ==
    LET base_trace_count == Len(b.data)
        secondary_trace_count == Len(secondary.data)
    IN  [i \in 1..Len(b.frames) |->
            [name |-> b.frames[i].name,
             data |-> b.frames[i].data \o
                      (IF secondary.frames # <<>>
                       THEN on_y2(matching_frame_data(secondary, b.frames[i].name))
                       ELSE on_y2(TraceValues(h, secondary))),
             traces |-> [t \in 1..(base_trace_count + secondary_trace_count) |-> t - 1]]]

\* Mutant: an empty secondary_y_title counts as not passed
\* (secondary_y_title or the secondary's title).
y2_title_unless_falsy(secondary, secondary_y_title) ==
    OrDefault(secondary_y_title, secondary.layout.ytitle)

\* The title of yaxis2: the argument unless it is None, else the text of the
\* secondary's y-axis title, None when that is unset (layout.yaxis and its
\* title are plotly objects, which are truthy).
y2_title(secondary, secondary_y_title) ==
    IF secondary_y_title = NoneV THEN secondary.layout.ytitle ELSE secondary_y_title

has_facets(axes) == Cardinality(axes) > 1 \/ axes # {<<"x", "y">>}

add_secondary_y(h, b, secondary, secondary_y_title) ==
    LET base_axes == _get_subplot_axes(h, b)
        secondary_axes == _get_subplot_axes(h, secondary)
        e == _validate_animation_compatibility(b, secondary)
        base_refs == deepcopy_refs(Len(h), b.data)
        h1 == deepcopy_heap(h, b.data)
        secondary_refs == deepcopy_refs(Len(h1), secondary.data)
        h2 == set_yaxis(deepcopy_heap(h1, secondary.data), secondary_refs, "y2")
    IN  IF has_facets(base_axes)
        THEN Raised(h, [NoError EXCEPT !.check = "base_facets"])
        ELSE IF has_facets(secondary_axes)
        THEN Raised(h, [NoError EXCEPT !.check = "secondary_facets"])
        ELSE IF e # NoError THEN Raised(h, e)
        ELSE Returned(h2,
                 [data |-> base_refs \o secondary_refs,
                  layout |-> [b.layout EXCEPT !.yaxis2 =
                                 <<[title |-> y2_title(secondary, secondary_y_title),
                                    overlaying |-> "y",
                                    side |-> "right"]>>],
                  frames |-> IF b.frames # <<>>
                             THEN _merge_secondary_y_frames(h, b, secondary)
                             ELSE <<>>])

\* overlay_figures(overlay_figures(a, b), c): the second call is made on the
\* figure the first returned, when it returned one.
overlay_figures_nested(h, a, b, c) ==
    LET inner == overlay_figures(h, a, <<b>>)
    IN  IF inner.kind = "raise" THEN inner
        ELSE overlay_figures(inner.heap, inner.fig, <<c>>)

\* ------------------------------------------------------------- inputs
\* The i-th trace of the figure numbered f.
MkTrace(f, i, ax) == [name |-> 10 * f + i, xaxis |-> ax[1], yaxis |-> ax[2]]

\* The j-th frame of figure f, fr = (name, number of data entries); entry k plots the
\* figure's k-th trace and carries its axis references.
MkFrame(f, j, axes, fr) ==
    [name |-> fr[1],
     data |-> [k \in 1..fr[2] |->
                  [name |-> 100 * f + 10 * j + k,
                   xaxis |-> IF k <= Len(axes) THEN axes[k][1] ELSE NoneV,
                   yaxis |-> IF k <= Len(axes) THEN axes[k][2] ELSE NoneV]],
     traces |-> <<>>]

\* Figure f: its traces are the objects first+1 .. first+Len(axes).
MkFigure(f, first, shape) ==
    [data |-> [i \in 1..Len(shape.axes) |-> first + i],
     layout |-> [title |-> f,
                 ytitle |-> IF shape.titled THEN YTitle(f) ELSE NoneV,
                 yaxis2 |-> <<>>],
     frames |-> [j \in 1..Len(shape.frames) |->
                    MkFrame(f, j, shape.axes, shape.frames[j])]]

ShapeTraces(f, shape) == [i \in 1..Len(shape.axes) |-> MkTrace(f, i, shape.axes[i])]

\* Frame lists of an input figure: (name, number of data entries) per frame;
\* the j-th frame holds at most j entries.
FrameLists ==
    {fs \in SeqsUpTo(FrameNames \X (1..MaxFrameData), MaxFrames) :
        \A j \in DOMAIN fs : fs[j][2] <= j}

\* Shapes of the figures of a call with at most one overlay / secondary: any
\* axis references without a y-axis title, or the default subplot with one.
Shapes ==
    [axes : SeqsUpTo(AxisRefs, MaxTraces), frames : FrameLists, titled : {FALSE}]
    \cup [axes : SeqsUpTo(DefaultAxisRefs, MaxTraces), frames : FrameLists,
          titled : {TRUE}]

\* Shapes of the figures of a call with several overlays: one entry per
\* frame, and frame lists without a repeated name.
PlainShapes ==
    [axes : SeqsUpTo(PlainAxisRefs, MaxTraces),
     frames : {fs \in SeqsUpTo(FrameNames \X {1}, MaxFrames) :
                  \A i, j \in DOMAIN fs : fs[i][1] = fs[j][1] => i = j},
     titled : {FALSE}]

RECURSIVE BuildFigures(_, _, _)
\* The figures of shapes ss, numbered from f, over the objects after `first`.
BuildFigures(ss, f, first) ==
    IF ss = <<>> THEN <<>>
    ELSE <<MkFigure(f, first, Head(ss))>>
         \o BuildFigures(Tail(ss), f + 1, first + Len(Head(ss).axes))

BuildHeap(ss) == Flatten([f \in 1..Len(ss) |-> ShapeTraces(f, ss[f])])

InitWith(ss) ==
    /\ heap = BuildHeap(ss)
    /\ base = BuildFigures(ss, 1, 0)[1]
    /\ overlays = Tail(BuildFigures(ss, 1, 0))
    /\ pc = "ready"
    /\ call = <<"none", NoneV>>
    /\ result = NoResult

\* A base alone or a base and one overlay / secondary of any shape, or a base
\* and several overlays of the plain shapes.
Init ==
    \/ \E ss \in [{1} -> Shapes] \cup [{1, 2} -> Shapes] : InitWith(ss)
    \/ \E k \in 2..MaxOverlays : \E ss \in [1..(k + 1) -> PlainShapes] : InitWith(ss)

\* ------------------------------------------------------------ actions
CallOverlayFigures ==
    /\ pc = "ready"
    /\ LET r == overlay_figures(heap, base, overlays)
       IN  /\ heap' = r.heap
           /\ result' = [kind |-> r.kind, fig |-> r.fig, err |-> r.err]
    /\ pc' = "done"
    /\ call' = <<"overlay_figures", NoneV>>
    /\ UNCHANGED <<base, overlays>>

CallAddSecondaryY ==
    /\ pc = "ready"
    /\ Len(overlays) = 1
    /\ \E secondary_y_title \in TitleArgs :
          LET r == add_secondary_y(heap, base, overlays[1], secondary_y_title)
          IN  /\ heap' = r.heap
              /\ result' = [kind |-> r.kind, fig |-> r.fig, err |-> r.err]
              /\ call' = <<"add_secondary_y", secondary_y_title>>
    /\ pc' = "done"
    /\ UNCHANGED <<base, overlays>>

\* Two overlays are added one after the other.
CallOverlayFiguresNested ==
    /\ pc = "ready"
    /\ Len(overlays) = 2
    /\ LET r == overlay_figures_nested(heap, base, overlays[1], overlays[2])
       IN  /\ heap' = r.heap
           /\ result' = [kind |-> r.kind, fig |-> r.fig, err |-> r.err]
    /\ pc' = "done"
    /\ call' = <<"overlay_figures_nested", NoneV>>
    /\ UNCHANGED <<base, overlays>>

\* The caller changes a trace of the returned figure.
ModifyReturnedTrace ==
    /\ pc = "done"
    /\ result.kind = "return"
    /\ \E i \in DOMAIN result.fig.data :
          heap' = [heap EXCEPT ![result.fig.data[i]].name = Modified]
    /\ pc' = "modified"
    /\ UNCHANGED <<base, overlays, call, result>>

Next ==
    \/ CallOverlayFigures
    \/ CallAddSecondaryY
    \/ CallOverlayFiguresNested
    \/ ModifyReturnedTrace

Spec == Init /\ [][Next]_vars

\* ------------------------------------------------- what the claims speak of
AfterOverlay == pc = "done" /\ call[1] = "overlay_figures"

AfterSecondary == pc = "done" /\ call[1] = "add_secondary_y"

InputTraces(fig) == TraceValues(heap, fig)

\* The (xaxis, yaxis) pairs a list of traces uses, an unset reference counting
\* as "x" / "y".
UsedPairs(traces) ==
    {<<IF traces[i].xaxis = NoneV THEN "x" ELSE traces[i].xaxis,
       IF traces[i].yaxis = NoneV THEN "y" ELSE traces[i].yaxis>> : i \in DOMAIN traces}

PairsOf(fig) == UsedPairs(InputTraces(fig))

NamesOf(fig) == {fig.frames[i].name : i \in DOMAIN fig.frames}

Animated(fig) == Len(fig.frames) > 0

DistinctFrameNames(fig) ==
    \A i, j \in DOMAIN fig.frames : fig.frames[i].name = fig.frames[j].name => i = j

\* The first frame of fig named n (fig has one).
FirstNamed(fig, n) ==
    fig.frames[CHOOSE i \in DOMAIN fig.frames :
                  /\ fig.frames[i].name = n
                  /\ \A j \in 1..(i - 1) : fig.frames[j].name # n]

\* What overlay ov is expected to add to the merged frame named n.
ExpectedPart(ov, n) ==
    IF Animated(ov) THEN FirstNamed(ov, n).data ELSE InputTraces(ov)

RECURSIVE ConcatParts(_, _)
\* The expected parts of the overlays ovs for the frame named n, in order.
ConcatParts(ovs, n) ==
    IF ovs = <<>> THEN <<>>
    ELSE ExpectedPart(Head(ovs), n) \o ConcatParts(Tail(ovs), n)

RECURSIVE ConcatTraces(_)
ConcatTraces(figs) ==
    IF figs = <<>> THEN <<>> ELSE InputTraces(Head(figs)) \o ConcatTraces(Tail(figs))

RECURSIVE TotalTraces(_)
TotalTraces(figs) ==
    IF figs = <<>> THEN 0 ELSE Len(Head(figs).data) + TotalTraces(Tail(figs))

\* ---------------------------------------------------------------- claims

\* C1: a successful overlay_figures(base, *overlays) with at least one overlay
\* returns the base's traces followed by each overlay's traces in argument
\* order, every trace with its own xaxis/yaxis; the trace count is the sum of
\* the inputs' counts and the result uses exactly the base's (xaxis, yaxis) pairs.
C1_TracesInArgumentOrder ==
    (AfterOverlay /\ overlays # <<>> /\ result.kind = "return") =>
        LET got == TraceValues(heap, result.fig)
        IN  /\ got = InputTraces(base) \o ConcatTraces(overlays)
            /\ Len(result.fig.data) = Len(base.data) + TotalTraces(overlays)
            /\ UsedPairs(got) = PairsOf(base)

C1_Witness ==
    /\ AfterOverlay /\ result.kind = "return"
    /\ Len(overlays) = 2
    /\ Len(base.data) = 2 /\ Len(overlays[1].data) = 2 /\ Len(overlays[2].data) = 2
    /\ Cardinality(PairsOf(base)) = 2
    /\ Cardinality(PairsOf(overlays[2])) = 2

\* C2: overlay_figures raises when some overlay uses an (xaxis, yaxis) pair no
\* base trace uses (unset counting as x / y), and the subplot-structure error
\* is raised for nothing else: it carries the non-empty difference
\* overlay_pairs \ base_pairs of the first overlay that has one, and with a
\* single overlay it is raised exactly when that difference is non-empty.
C2_StructureErrorIsPairDifference ==
    (AfterOverlay /\ overlays # <<>>) =>
        LET extra(k) == PairsOf(overlays[k]) \ PairsOf(base)
            bad == {k \in DOMAIN overlays : extra(k) # {}}
        IN  /\ bad # {} => result.kind = "raise"
            /\ result.err.check = "structure" =>
                  /\ bad # {}
                  /\ result.err.extra_axes = extra(SetMin(bad))
            /\ (extra(1) # {}) <=>
                  (result.err.check = "structure" /\ result.err.extra_axes = extra(1))

\* Every axis of the overlay is used by the base, but not as that pair.
C2_Witness ==
    /\ AfterOverlay /\ Len(overlays) = 1
    /\ result.kind = "raise" /\ result.err.check = "structure"
    /\ PairsOf(base) = {<<"x2", "y">>, <<"x", "y2">>}
    /\ PairsOf(overlays[1]) = {<<"x", "y">>, <<"x", "y2">>}
    /\ \E i \in DOMAIN overlays[1].data : heap[overlays[1].data[i]].xaxis = NoneV

\* C3 as stated: overlay_figures raises whenever the base's and an overlay's
\* sets of (xaxis, yaxis) pairs differ, in either direction (stated here for
\* figures that have traces).
C3_AnyMismatchRaises ==
    (AfterOverlay /\ base.data # <<>>
        /\ \E k \in DOMAIN overlays :
              overlays[k].data # <<>> /\ PairsOf(overlays[k]) # PairsOf(base))
        => result.kind = "raise"

\* C3 amended: overlay_figures raises whenever an overlay uses a pair the base
\* lacks; a base pair that an overlay lacks is no mismatch: when every
\* overlay's pairs are among the base's no subplot-structure error is raised,
\* and with static overlays a figure is returned.
C3_OnlyExtraOverlaySubplotsRaise ==
    AfterOverlay =>
        /\ (\E k \in DOMAIN overlays : ~(PairsOf(overlays[k]) \subseteq PairsOf(base)))
              => (result.kind = "raise" /\ result.fig = EmptyFigure)
        /\ (\A k \in DOMAIN overlays : PairsOf(overlays[k]) \subseteq PairsOf(base))
              => /\ result.err.check # "structure"
                 /\ (\A k \in DOMAIN overlays : ~Animated(overlays[k]))
                       => result.kind = "return"

\* The base has a subplot the overlay lacks, and the call returns.
C3_Witness ==
    /\ AfterOverlay /\ Len(overlays) = 1
    /\ PairsOf(overlays[1]) # {}
    /\ PairsOf(overlays[1]) \subseteq PairsOf(base)
    /\ PairsOf(overlays[1]) # PairsOf(base)
    /\ result.kind = "return"

\* C4: for overlay_figures and add_secondary_y, an overlay / secondary with
\* frames on a base without frames makes the call raise and return no figure
\* (the animated-on-static error when the earlier subplot check passes); with
\* only static overlays no animation error is ever raised.
C4_AnimatedOnStaticRaises ==
    ((AfterOverlay /\ overlays # <<>>) \/ AfterSecondary) =>
        /\ (~Animated(base) /\ \E k \in DOMAIN overlays : Animated(overlays[k]))
              => (result.kind = "raise" /\ result.fig = EmptyFigure)
        /\ (AfterOverlay /\ ~Animated(base) /\ Animated(overlays[1])
               /\ PairsOf(overlays[1]) \subseteq PairsOf(base))
              => result.err.check = "animated_on_static"
        /\ (AfterSecondary /\ ~Animated(base) /\ Animated(overlays[1])
               /\ PairsOf(base) = {<<"x", "y">>} /\ PairsOf(overlays[1]) = {<<"x", "y">>})
              => result.err.check = "animated_on_static"
        /\ (\A k \in DOMAIN overlays : ~Animated(overlays[k]))
              => result.err.check \notin {"animated_on_static", "frame_names"}

C4_Witness ==
    /\ AfterSecondary
    /\ ~Animated(base) /\ Len(overlays[1].frames) = 2
    /\ result.kind = "raise" /\ result.err.check = "animated_on_static"

\* C5 as stated: when base and overlay / secondary both have frames, the call
\* raises if and only if their sets of frame names differ, and the message
\* names the missing and the extra frames exactly when there are some (stated
\* here for figures that have traces).
C5_RaisesIffNamesDiffer ==
    (((AfterOverlay /\ Len(overlays) = 1) \/ AfterSecondary)
        /\ base.data # <<>> /\ overlays[1].data # <<>>
        /\ Animated(base) /\ Animated(overlays[1])) =>
        /\ (result.kind = "raise") <=> (NamesOf(base) # NamesOf(overlays[1]))
        /\ result.kind = "raise" =>
              /\ result.err.says_missing <=> (NamesOf(base) \ NamesOf(overlays[1]) # {})
              /\ result.err.says_extra <=> (NamesOf(overlays[1]) \ NamesOf(base) # {})

\* C5 amended: with an animated base the call raises whenever an animated
\* overlay / secondary has a different set of frame names; when the earlier
\* check passes (subplot structure of every overlay for overlay_figures, no
\* facets for add_secondary_y) it raises if and only if there is such an
\* overlay, and the error is the frame-name error of the first one, naming
\* the missing frames exactly when the base has a name the overlay lacks and
\* the extra frames exactly when the overlay has a name the base lacks.
C5_FrameNameErrorIffNamesDiffer ==
    (((AfterOverlay /\ overlays # <<>>) \/ AfterSecondary) /\ Animated(base)) =>
        LET differs == {k \in DOMAIN overlays :
                           Animated(overlays[k]) /\ NamesOf(overlays[k]) # NamesOf(base)}
            earlier_pass ==
                IF AfterOverlay
                THEN \A k \in DOMAIN overlays : PairsOf(overlays[k]) \subseteq PairsOf(base)
                ELSE PairsOf(base) = {<<"x", "y">>} /\ PairsOf(overlays[1]) = {<<"x", "y">>}
            first == overlays[SetMin(differs)]
        IN  /\ differs # {} => result.kind = "raise"
            /\ result.err.check = "frame_names" => differs # {}
            /\ earlier_pass =>
                  /\ (result.kind = "raise") <=> (differs # {})
                  /\ differs # {} =>
                        /\ result.err.check = "frame_names"
                        /\ result.err.missing = NamesOf(base) \ NamesOf(first)
                        /\ result.err.extra = NamesOf(first) \ NamesOf(base)
                        /\ result.err.says_missing <=> (NamesOf(base) \ NamesOf(first) # {})
                        /\ result.err.says_extra <=> (NamesOf(first) \ NamesOf(base) # {})

\* The overlay has an extra frame name and misses none.
C5_Witness ==
    /\ AfterOverlay /\ Len(overlays) = 1
    /\ NamesOf(base) = {"f1"} /\ NamesOf(overlays[1]) = {"f1", "f2"}
    /\ result.kind = "raise" /\ result.err.check = "frame_names"
    /\ result.err.says_extra /\ ~result.err.says_missing

\* C6 as stated: with an animated base and animated overlays accepted by the
\* validation, the result has the base's frames, names and order, and the
\* i-th merged frame is the i-th base frame's data followed by the data of
\* each overlay's i-th frame, its length being
\* len(base.frames[i].data) + len(overlay.frames[i].data) summed over overlays
\* (stated here for figures that have traces and no repeated frame name).
C6_MergedByPosition ==
    (AfterOverlay /\ overlays # <<>> /\ result.kind = "return" /\ Animated(base)
        /\ DistinctFrameNames(base) /\ base.data # <<>>
        /\ \A k \in DOMAIN overlays :
              /\ Animated(overlays[k]) /\ DistinctFrameNames(overlays[k])
              /\ overlays[k].data # <<>>) =>
        /\ Len(result.fig.frames) = Len(base.frames)
        /\ \A i \in DOMAIN result.fig.frames :
              /\ result.fig.frames[i].name = base.frames[i].name
              /\ (\A k \in DOMAIN overlays : i <= Len(overlays[k].frames)) =>
                    /\ result.fig.frames[i].data =
                          base.frames[i].data
                          \o Flatten([k \in 1..Len(overlays) |-> overlays[k].frames[i].data])
                    /\ Len(result.fig.frames[i].data) =
                          Len(base.frames[i].data)
                          + SumSeq([k \in 1..Len(overlays) |->
                                       Len(overlays[k].frames[i].data)])

\* C6 amended: with an animated base and animated overlays accepted by the
\* validation, the result has exactly the base's frames, names and order, and
\* the i-th merged frame is the i-th base frame's data followed, for each
\* overlay in argument order, by the data of that overlay's first frame of
\* the same name, its length being the sum of those lengths; when the base
\* has no frames the result has none.
C6_MergedByName ==
    (AfterOverlay /\ result.kind = "return") =>
        /\ ~Animated(base) => result.fig.frames = <<>>
        /\ (overlays # <<>> /\ Animated(base)
               /\ \A k \in DOMAIN overlays : Animated(overlays[k])) =>
              /\ Len(result.fig.frames) = Len(base.frames)
              /\ \A i \in DOMAIN result.fig.frames :
                    LET n == base.frames[i].name
                    IN  /\ result.fig.frames[i].name = n
                        /\ result.fig.frames[i].data =
                              base.frames[i].data \o ConcatParts(overlays, n)
                        /\ Len(result.fig.frames[i].data) =
                              Len(base.frames[i].data)
                              + SumSeq([k \in 1..Len(overlays) |->
                                           Len(FirstNamed(overlays[k], n).data)])

\* The overlay's frames come in another order than the base's and differ in
\* length.
C6_Witness ==
    /\ AfterOverlay /\ result.kind = "return" /\ Len(overlays) = 1
    /\ Len(base.frames) = 2 /\ Len(overlays[1].frames) = 2
    /\ base.frames[1].name = overlays[1].frames[2].name
    /\ base.frames[2].name = overlays[1].frames[1].name
    /\ base.frames[1].name # base.frames[2].name
    /\ Len(overlays[1].frames[1].data) # Len(overlays[1].frames[2].data)

\* C7: a static overlay on an animated base is replicated to every frame:
\* each merged frame starts with the base frame's data and holds, at the
\* overlay's place in argument order, all traces of the static overlay in
\* order; with static overlays only the frame has
\* len(base_frame.data) + len(static.data) entries (summed over the
\* overlays).  This holds with animated overlays mixed in and with facets.
C7_StaticOverlayInEveryFrame ==
    (AfterOverlay /\ overlays # <<>> /\ result.kind = "return" /\ Animated(base)) =>
        /\ Len(result.fig.frames) = Len(base.frames)
        /\ \A i \in DOMAIN result.fig.frames :
              LET n == base.frames[i].name
                  data == result.fig.frames[i].data
                  nb == Len(base.frames[i].data)
                  off(k) == nb + Len(ConcatParts(SubSeq(overlays, 1, k - 1), n))
              IN  /\ SubSeq(data, 1, nb) = base.frames[i].data
                  /\ \A k \in DOMAIN overlays :
                        ~Animated(overlays[k]) =>
                            /\ Len(data) >= off(k) + Len(overlays[k].data)
                            /\ SubSeq(data, off(k) + 1, off(k) + Len(overlays[k].data))
                                  = InputTraces(overlays[k])
                  /\ (\A k \in DOMAIN overlays : ~Animated(overlays[k])) =>
                        Len(data) = nb + TotalTraces(overlays)

\* An animated and a static overlay on an animated, faceted base.
C7_Witness ==
    /\ AfterOverlay /\ result.kind = "return" /\ Len(overlays) = 2
    /\ Len(base.frames) = 2 /\ Cardinality(PairsOf(base)) = 2
    /\ Animated(overlays[1])
    /\ ~Animated(overlays[2]) /\ Len(overlays[2].data) = 2

\* C8: overlay_figures with no overlays returns, for any base and without
\* raising, a copy of the base: equal traces, layout and frames, and no trace
\* object shared with the base.
C8_NoOverlaysDeepCopy ==
    (AfterOverlay /\ overlays = <<>>) =>
        /\ result.kind = "return"
        /\ result.err = NoError
        /\ FigureValue(heap, result.fig) = FigureValue(heap, base)
        /\ Range(result.fig.data) \cap Range(base.data) = {}

C8_Witness ==
    /\ AfterOverlay /\ overlays = <<>> /\ result.kind = "return"
    /\ Len(base.data) = 2 /\ Cardinality(PairsOf(base)) = 2
    /\ Len(base.frames) = 2

\* C9: the layout of every figure overlay_figures returns is the base's
\* layout, and nothing of an overlay's layout shows in it.
C9_BaseLayoutPreserved ==
    (AfterOverlay /\ result.kind = "return") =>
        /\ result.fig.layout = base.layout
        /\ \A k \in DOMAIN overlays :
              result.fig.layout.title # overlays[k].layout.title

C9_Witness ==
    /\ AfterOverlay /\ result.kind = "return" /\ Len(overlays) = 2
    /\ result.fig.layout.title = 1
    /\ overlays[1].layout.title = 2 /\ overlays[2].layout.title = 3

\* C10: overlay_figures and add_secondary_y are pure: no step, a call that
\* returns, a call that raises or a later change of a returned trace,
\* changes the traces, the layout or the frames of the base or of an
\* overlay / secondary figure.
C10_InputsNeverChange ==
    [][/\ FigureValue(heap', base') = FigureValue(heap, base)
       /\ Len(overlays') = Len(overlays)
       /\ \A k \in DOMAIN overlays :
             FigureValue(heap', overlays'[k]) = FigureValue(heap, overlays[k])]_vars

\* A trace of the figure add_secondary_y returned has been changed.
C10_Witness ==
    /\ pc = "modified" /\ call[1] = "add_secondary_y"
    /\ Len(base.data) = 2 /\ Len(overlays[1].data) = 2
    /\ \E i \in DOMAIN result.fig.data : heap[result.fig.data[i]].name = Modified
    /\ base.layout.yaxis2 = <<>>
    /\ \A i \in DOMAIN overlays[1].data : heap[overlays[1].data[i]].yaxis # "y2"

\* C11: a successful add_secondary_y(base, secondary) returns the base's traces
\* in order, each with the y-axis reference it had (unset or "y"), followed
\* by the secondary's traces in order, each of them on "y2" and otherwise
\* unchanged; the trace count is len(base.data) + len(secondary.data).
C11_SecondaryTracesOnY2 ==
    (AfterSecondary /\ result.kind = "return") =>
        LET got == TraceValues(heap, result.fig)
            nb == Len(base.data)
            sec == InputTraces(overlays[1])
        IN  /\ Len(got) = nb + Len(overlays[1].data)
            /\ SubSeq(got, 1, nb) = InputTraces(base)
            /\ \A i \in 1..nb : got[i].yaxis \in {NoneV, "y"}
            /\ \A i \in DOMAIN sec :
                  /\ got[nb + i].yaxis = "y2"
                  /\ got[nb + i] = [sec[i] EXCEPT !.yaxis = "y2"]

\* Two base traces, one with yaxis unset and one on "y", and two secondary
\* traces.
C11_Witness ==
    /\ AfterSecondary /\ result.kind = "return"
    /\ Len(base.data) = 2 /\ Len(overlays[1].data) = 2
    /\ heap[base.data[1]].yaxis = NoneV /\ heap[base.data[2]].yaxis = "y"
    /\ heap[overlays[1].data[1]].yaxis = NoneV

\* C12: every figure add_secondary_y returns has a yaxis2 with overlaying "y"
\* and side "right", the rest of the layout being the base's; the yaxis2
\* title is the secondary_y_title argument whenever one is passed, the empty
\* string included, otherwise the secondary's y-axis title text when it has
\* one, otherwise none; the base's own y-axis title is never used.
C12_SecondaryAxisLayout ==
    (AfterSecondary /\ result.kind = "return") =>
        LET layout == result.fig.layout
            secondary == overlays[1]
        IN  /\ Len(layout.yaxis2) = 1
            /\ layout.yaxis2[1].overlaying = "y"
            /\ layout.yaxis2[1].side = "right"
            /\ [layout EXCEPT !.yaxis2 = base.layout.yaxis2] = base.layout
            /\ call[2] # NoneV => layout.yaxis2[1].title = call[2]
            /\ (call[2] = NoneV /\ secondary.layout.ytitle # NoneV)
                  => layout.yaxis2[1].title = secondary.layout.ytitle
            /\ (call[2] = NoneV /\ secondary.layout.ytitle = NoneV)
                  => layout.yaxis2[1].title = NoneV
            /\ base.layout.ytitle # NoneV
                  => layout.yaxis2[1].title # base.layout.ytitle

\* An empty secondary_y_title is passed and both figures have a y-axis title.
C12_Witness ==
    /\ AfterSecondary /\ result.kind = "return"
    /\ call[2] = ""
    /\ base.layout.ytitle = "Temperature"
    /\ overlays[1].layout.ytitle = "Precipitation"
    /\ result.fig.layout.yaxis2[1].title = ""

\* No secondary_y_title is passed and only the base has a y-axis title.
C12_WitnessNoTitle ==
    /\ AfterSecondary /\ result.kind = "return"
    /\ call[2] = NoneV
    /\ base.layout.ytitle = "Temperature"
    /\ overlays[1].layout.ytitle = NoneV
    /\ result.fig.layout.yaxis2[1].title = NoneV

\* A figure has facets: its traces use more than one (xaxis, yaxis) pair or a
\* pair other than ("x", "y").
Faceted(fig) ==
    \/ Cardinality(PairsOf(fig)) > 1
    \/ \E p \in PairsOf(fig) : p # <<"x", "y">>

\* C13: add_secondary_y raises if either figure has facets: a faceted base
\* gives the base-facets error, a faceted secondary the secondary-facets
\* error, the base error when both have facets, and the facet error comes
\* before any animation-frame error.
C13_FacetErrors ==
    AfterSecondary =>
        /\ (Faceted(base) \/ Faceted(overlays[1])) => result.kind = "raise"
        /\ Faceted(base) => result.err.check = "base_facets"
        /\ (Faceted(overlays[1]) /\ ~Faceted(base))
              => result.err.check = "secondary_facets"

\* The part of C13 that holds for every input: a figure with facets makes the
\* call raise a facet error whatever the frames are, the base's when the base
\* has facets, and the secondary's when the base's traces are all on
\* ("x", "y").
C13_FacetErrorsWithTracedBase ==
    AfterSecondary =>
        /\ (Faceted(base) \/ Faceted(overlays[1])) =>
              /\ result.kind = "raise"
              /\ result.err.check \in {"base_facets", "secondary_facets"}
        /\ Faceted(base) => result.err.check = "base_facets"
        /\ (Faceted(overlays[1]) /\ PairsOf(base) = {<<"x", "y">>})
              => result.err.check = "secondary_facets"

\* A base without traces and a secondary with facets: the error blames the
\* base.
C13_Witness ==
    /\ AfterSecondary
    /\ base.data = <<>> /\ Faceted(overlays[1])
    /\ result.kind = "raise" /\ result.err.check = "base_facets"

\* Both figures have facets and their frame names differ.
C13_WitnessBoth ==
    /\ AfterSecondary
    /\ Faceted(base) /\ Faceted(overlays[1])
    /\ Animated(base) /\ Animated(overlays[1])
    /\ NamesOf(base) # NamesOf(overlays[1])
    /\ result.err.check = "base_facets"

C14_WitnessStatic ==
    /\ AfterSecondary /\ result.kind = "return"
    /\ Len(base.frames) = 2 /\ ~Animated(overlays[1])
    /\ Len(overlays[1].data) = 2

\* What overlay / secondary ov adds to the merged frame named n, as the call
\* made leaves it: on "y2" for add_secondary_y.
PartAsMerged(ov, n) ==
    IF AfterSecondary
    THEN [k \in DOMAIN ExpectedPart(ov, n) |->
             [ExpectedPart(ov, n)[k] EXCEPT !.yaxis = "y2"]]
    ELSE ExpectedPart(ov, n)

\* C15: frames are merged by name, not by position.  With an animated base,
\* overlay_figures and add_secondary_y raise no animation error for animated
\* overlays whose set of frame names is the base's, whatever their order, and
\* return a figure when the earlier check passes too; in a returned figure
\* every base frame has a frame of its name in every animated overlay, the
\* merged frames follow the base's order, and the merged frame named n is the
\* base frame's data followed by the data of each animated overlay's first
\* frame named n.
C15_ReorderedFramesMergedByName ==
    (((AfterOverlay /\ overlays # <<>>) \/ AfterSecondary) /\ Animated(base)) =>
        LET animated == {k \in DOMAIN overlays : Animated(overlays[k])}
            same_names == \A k \in animated : NamesOf(overlays[k]) = NamesOf(base)
            earlier_pass ==
                IF AfterOverlay
                THEN \A k \in DOMAIN overlays : PairsOf(overlays[k]) \subseteq PairsOf(base)
                ELSE PairsOf(base) = {<<"x", "y">>} /\ PairsOf(overlays[1]) = {<<"x", "y">>}
        IN  /\ same_names => result.err.check \notin {"frame_names", "animated_on_static"}
            /\ (same_names /\ earlier_pass) => result.kind = "return"
            /\ result.kind = "return" =>
                  /\ \A k \in animated : \A i \in DOMAIN base.frames :
                        \E j \in DOMAIN overlays[k].frames :
                            overlays[k].frames[j].name = base.frames[i].name
                  /\ [i \in DOMAIN result.fig.frames |-> result.fig.frames[i].name]
                        = [i \in DOMAIN base.frames |-> base.frames[i].name]
                  /\ animated = DOMAIN overlays =>
                        \A i \in DOMAIN base.frames :
                            result.fig.frames[i].data =
                                base.frames[i].data
                                \o Flatten([k \in 1..Len(overlays) |->
                                               PartAsMerged(overlays[k],
                                                            base.frames[i].name)])

\* add_secondary_y returns for a secondary whose two frames come in the other
\* order than the base's.
C15_Witness ==
    /\ AfterSecondary /\ result.kind = "return"
    /\ Len(base.frames) = 2 /\ Len(overlays[1].frames) = 2
    /\ base.frames[1].name = "f1" /\ base.frames[2].name = "f2"
    /\ overlays[1].frames[1].name = "f2" /\ overlays[1].frames[2].name = "f1"
    /\ Len(overlays[1].frames[2].data) = 2
    /\ Len(result.fig.frames[1].data) = Len(base.frames[1].data) + 2

\* overlay_figures returns for two animated overlays, one of them in the
\* other order than the base.
C15_WitnessOverlays ==
    /\ AfterOverlay /\ result.kind = "return" /\ Len(overlays) = 2
    /\ Len(base.frames) = 2
    /\ Len(overlays[1].frames) = 2 /\ Len(overlays[2].frames) = 2
    /\ base.frames[1].name = overlays[1].frames[2].name
    /\ base.frames[1].name = overlays[2].frames[1].name

\* Overlay k has a subplot the base lacks.
StructureBad(k) == ~(PairsOf(overlays[k]) \subseteq PairsOf(base))

\* Overlay k has frames the base cannot take: the base has none, or other
\* names.
AnimationBad(k) ==
    /\ Animated(overlays[k])
    /\ ~Animated(base) \/ NamesOf(overlays[k]) # NamesOf(base)

\* C16: overlay_figures validates every overlay before it builds anything.
\* If some overlay is incompatible the call raises, returns no figure and has
\* copied no trace, however many earlier overlays were valid; otherwise it
\* returns.  The error is that of the first incompatible overlay in argument
\* order, and the subplot-structure error when that overlay fails both
\* checks.
C16_FirstOffendingOverlayRaises ==
    (AfterOverlay /\ overlays # <<>>) =>
        LET bad == {k \in DOMAIN overlays : StructureBad(k) \/ AnimationBad(k)}
            first == SetMin(bad)
        IN  /\ bad = {} => result.kind = "return"
            /\ bad # {} =>
                  /\ result.kind = "raise"
                  /\ result.fig = EmptyFigure
                  /\ Len(heap) = Len(base.data) + TotalTraces(overlays)
                  /\ StructureBad(first) =>
                        /\ result.err.check = "structure"
                        /\ result.err.extra_axes =
                              PairsOf(overlays[first]) \ PairsOf(base)
                  /\ ~StructureBad(first) =>
                        /\ result.err.check =
                              IF Animated(base) THEN "frame_names"
                              ELSE "animated_on_static"
                        /\ result.err.missing =
                              IF Animated(base)
                              THEN NamesOf(base) \ NamesOf(overlays[first]) ELSE {}
                        /\ result.err.extra =
                              IF Animated(base)
                              THEN NamesOf(overlays[first]) \ NamesOf(base) ELSE {}

\* The first overlay fails the animation check only, the second the
\* structure check: the first one's error is raised.
C16_Witness ==
    /\ AfterOverlay /\ Len(overlays) = 2
    /\ ~StructureBad(1) /\ AnimationBad(1)
    /\ StructureBad(2)
    /\ result.kind = "raise" /\ result.err.check = "frame_names"

\* A valid overlay followed by one that fails both checks.
C16_WitnessBoth ==
    /\ AfterOverlay /\ Len(overlays) = 2
    /\ ~StructureBad(1) /\ ~AnimationBad(1) /\ overlays[1].data # <<>>
    /\ StructureBad(2) /\ AnimationBad(2)
    /\ result.kind = "raise" /\ result.err.check = "structure"

\* 0 .. n-1 as a list.
IndexList(n) == [t \in 1..n |-> t - 1]

\* Every frame of fig holds one data entry per trace of fig.
FramesCoverTraces(fig) ==
    \A i \in DOMAIN fig.frames : Len(fig.frames[i].data) = Len(fig.data)

\* C17: in every frame of a figure returned by overlay_figures (with
\* overlays) or add_secondary_y, the trace-index list is 0 .. N-1, N the
\* number of traces of the combined figure, and the frame holds as many data
\* entries as the list has indices (stated here for figures that have
\* traces).
C17_FrameEntriesMatchTraceIndices ==
    (((AfterOverlay /\ overlays # <<>>) \/ AfterSecondary)
        /\ result.kind = "return" /\ base.data # <<>>
        /\ \A k \in DOMAIN overlays : overlays[k].data # <<>>) =>
        \A i \in DOMAIN result.fig.frames :
            /\ result.fig.frames[i].traces = IndexList(Len(result.fig.data))
            /\ Len(result.fig.frames[i].data) = Len(result.fig.frames[i].traces)

\* The part of C17 that holds for every input: the trace-index list of every
\* merged frame is 0 .. N-1 with N = len(base.data) + the overlays' trace
\* counts, and a merged frame holds N entries when every frame of the base
\* and of the animated overlays holds one entry per trace of its figure.
C17_TraceIndicesCoverAllTraces ==
    (((AfterOverlay /\ overlays # <<>>) \/ AfterSecondary) /\ result.kind = "return") =>
        \A i \in DOMAIN result.fig.frames :
            /\ Len(result.fig.data) = Len(base.data) + TotalTraces(overlays)
            /\ result.fig.frames[i].traces = IndexList(Len(result.fig.data))
            /\ (FramesCoverTraces(base)
                   /\ \A k \in DOMAIN overlays : FramesCoverTraces(overlays[k]))
                  => Len(result.fig.frames[i].data) = Len(result.fig.data)

\* A base of two traces whose frame holds one entry, and a static overlay of
\* one trace: the merged frame has two entries and three trace indices, so
\* the overlay's entry is addressed to the base's second trace.
C17_Witness ==
    /\ AfterOverlay /\ result.kind = "return" /\ Len(overlays) = 1
    /\ Len(base.data) = 2 /\ Len(base.frames) = 1 /\ Len(base.frames[1].data) = 1
    /\ ~Animated(overlays[1]) /\ Len(overlays[1].data) = 1
    /\ Len(result.fig.frames[1].data) = 2
    /\ result.fig.frames[1].traces = <<0, 1, 2>>

AfterNested == pc = "done" /\ call[1] = "overlay_figures_nested"

\* The heap as it was before the call: the input figures' traces.
InputHeap == SubSeq(heap, 1, Len(base.data) + TotalTraces(overlays))

\* C18: overlay_figures(overlay_figures(a, b), c) and overlay_figures(a, b, c)
\* have the same outcome: both raise, or both return figures with equal
\* traces, equal layout and equal frames (names, order, data and trace-index
\* lists).
C18_NestingIsAssociative ==
    AfterNested =>
        LET flat == overlay_figures(InputHeap, base, overlays)
        IN  /\ result.kind = flat.kind
            /\ result.kind = "return" =>
                  /\ TraceValues(heap, result.fig) = TraceValues(flat.heap, flat.fig)
                  /\ result.fig.layout = flat.fig.layout
                  /\ result.fig.frames = flat.fig.frames

\* An animated base with an animated and a static overlay, all with traces.
C18_Witness ==
    /\ AfterNested /\ result.kind = "return"
    /\ Len(base.data) = 2 /\ Len(base.frames) = 2
    /\ Len(overlays[1].data) = 1 /\ Len(overlays[1].frames) = 2
    /\ overlays[1].frames[1].name = base.frames[2].name
    /\ Len(overlays[2].data) = 2 /\ ~Animated(overlays[2])
    /\ Len(result.fig.frames[1].data) = 4

\* Both ways of calling raise: the second overlay has a subplot the base
\* lacks.
C18_WitnessRaise ==
    /\ AfterNested /\ result.kind = "raise"
    /\ ~StructureBad(1) /\ ~AnimationBad(1)
    /\ StructureBad(2)

\* C19: add_secondary_y raises a facet error only for figures that have
\* facets: a base and a secondary whose traces all use ("x", "y"), one of
\* them possibly without traces, with compatible frames, are accepted and a
\* figure is returned; overlay_figures accepts an overlay with compatible
\* frames on a base without traces when both use only the default axes.
C19_OnlyFacetedFiguresRejected ==
    /\ AfterSecondary =>
          /\ result.err.check = "base_facets" => Faceted(base)
          /\ result.err.check = "secondary_facets" => Faceted(overlays[1])
          /\ (~Faceted(base) /\ ~Faceted(overlays[1]) /\ ~AnimationBad(1))
                => result.kind = "return"
    /\ (AfterOverlay /\ Len(overlays) = 1 /\ base.data = <<>>
           /\ ~Faceted(overlays[1]) /\ ~AnimationBad(1))
          => result.kind = "return"

\* What holds instead: add_secondary_y raises a facet error exactly when the
\* set of pairs of the base or of the secondary is not {("x", "y")}, which
\* includes a figure without traces, and overlay_figures raises the
\* subplot-structure error for any overlay with traces on a base without
\* traces.
C19_FiguresWithoutTracesRejected ==
    /\ AfterSecondary =>
          /\ (result.err.check \in {"base_facets", "secondary_facets"})
                <=> (PairsOf(base) # {<<"x", "y">>}
                        \/ PairsOf(overlays[1]) # {<<"x", "y">>})
          /\ (PairsOf(base) = {<<"x", "y">>} /\ PairsOf(overlays[1]) = {<<"x", "y">>}
                 /\ ~AnimationBad(1))
                => result.kind = "return"
    /\ (AfterOverlay /\ overlays # <<>> /\ base.data = <<>>
           /\ overlays[1].data # <<>>)
          => result.err.check = "structure"

\* A base on the default axes and a secondary without traces, no frames: the
\* secondary is said to have facets.
C19_Witness ==
    /\ AfterSecondary
    /\ PairsOf(base) = {<<"x", "y">>} /\ overlays[1].data = <<>>
    /\ ~Animated(base) /\ ~Animated(overlays[1])
    /\ result.kind = "raise" /\ result.err.check = "secondary_facets"

\* An overlay on the default axes on a base without traces, no frames.
C19_WitnessOverlay ==
    /\ AfterOverlay /\ Len(overlays) = 1
    /\ base.data = <<>> /\ PairsOf(overlays[1]) = {<<"x", "y">>}
    /\ ~Animated(base) /\ ~Animated(overlays[1])
    /\ result.kind = "raise" /\ result.err.check = "structure"

====
